---- MODULE Spec2Model ----
(***************************************************************************)
(* Model of the schema migration runner                                    *)
(* (project-dashboard/z-monitor/scripts/migrate.py).                       *)
(*                                                                         *)
(* A migration file is known by its stem, a sequence of characters; its    *)
(* path is <dir>/<stem>.sql.  The store is an sqlite3 connection opened    *)
(* with Python's default (legacy) transaction control: the committed       *)
(* content, the uncommitted writes of the open transaction, and whether a  *)
(* transaction is open.                                                    *)
(***************************************************************************)
EXTENDS Integers, Sequences, FiniteSets, TLC

\* ------------------------------------------------------------------ bounds
MaxFiles == 3
MaxRuns == 2
MaxConcFiles == 2

\* ------------------------------------------------------------------ inputs
\* Stems of the *.sql files a migrations directory may hold.
Names ==
  { <<"0", "1", "_", "a">>,
    <<"0", "2", "_", "a">>,
    <<"1", "_", "b">>,
    <<"2", "_", "a">>,
    <<"1", "0", "_", "a">>,
    <<"0", "_", "a">>,
    <<"x", "_", "a">>,
    <<"-", "1", "_", "a">> }

\* A body is a batch of statements; "bad" is a statement the store rejects.
Bodies ==
  { <<"ok", "ok">>, <<"ok", "bad">>, <<"bad", "ok">> }

GoodBody == <<"ok", "ok">>

\* The engine instances started against one store and one directory, and
\* the stems the directory may hold then.
Instances == {"A", "B"}

ConcNames ==
  { <<"0", "1", "_", "a">>,
    <<"1", "_", "b">>,
    <<"2", "_", "a">>,
    <<"1", "0", "_", "a">> }

VARIABLES
  dirExists,        \* migrations_dir.exists()
  files,            \* stems of the *.sql files in the directory
  body,             \* content of each file
  db,               \* the sqlite3 connection and the database behind it
  phase,            \* "Idle", "Applying", "Done", "Failed"
  run,              \* number of invocations of main() so far
  current_version,  \* main's local, read once per run
  migration_files,  \* main's sorted list of paths
  idx,              \* position of the for loop in migration_files
  applied_count,    \* main's local
  final_version,    \* main's local, -1 while not read
  exit_code,        \* -1 while the process has not exited
  calls,            \* history: every apply_migration call, in order
  warnings,         \* history: every "Skipping invalid migration file"
  start,            \* history: the store and the previous run's outcome
                    \* when the current run began
  inst              \* concurrent instances: each one's position in main
                    \* and apply_migration, its locals and its connection

vars == << dirExists, files, body, db, phase, run, current_version,
           migration_files, idx, applied_count, final_version, exit_code,
           calls, warnings, start, inst >>

\* The variables of the single sequential engine.
seqVars == << phase, run, current_version, migration_files, idx,
              applied_count, final_version, exit_code, calls, warnings, start >>

\* ------------------------------------------------------------ file names
Code(c) ==
  CASE c = "-" -> 45
    [] c = "." -> 46
    [] c = "0" -> 48
    [] c = "1" -> 49
    [] c = "2" -> 50
    [] c = "_" -> 95
    [] c = "a" -> 97
    [] c = "b" -> 98
    [] c = "l" -> 108
    [] c = "q" -> 113
    [] c = "s" -> 115
    [] c = "x" -> 120

IsDigit(c) == c \in {"0", "1", "2"}

FileName(stem) == stem \o <<".", "s", "q", "l">>

\* Path.__lt__ for two paths of one directory: the names compared as strings.
StrLess(a, b) ==
  \E i \in 1..(Len(b)) :
    /\ \A j \in 1..(i - 1) : j <= Len(a) /\ a[j] = b[j]
    /\ \/ i = Len(a) + 1
       \/ i <= Len(a) /\ Code(a[i]) < Code(b[i])

PathLess(f, g) == StrLess(FileName(f), FileName(g))

RECURSIVE InsertSorted(_, _)
InsertSorted(seq, x) ==
  IF seq = <<>> THEN <<x>>
  ELSE IF PathLess(x, Head(seq)) THEN <<x>> \o seq
  ELSE <<Head(seq)>> \o InsertSorted(Tail(seq), x)

\* Variant that takes the files in the order glob yields them.
glob_order(seq) == seq

\* sorted(migrations_dir.glob("*.sql")): the enumeration, ordered by path.
RECURSIVE sorted(_)
sorted(seq) ==
  IF seq = <<>> THEN <<>>
  ELSE InsertSorted(sorted(SubSeq(seq, 1, Len(seq) - 1)), seq[Len(seq)])

\* The orders in which glob may enumerate the directory.
RECURSIVE Enumerations(_)
Enumerations(S) ==
  IF S = {} THEN { <<>> }
  ELSE UNION { { <<x>> \o e : e \in Enumerations(S \ {x}) } : x \in S }

\* The directories the model considers, and for each of them the lists
\* sorted(migrations_dir.glob("*.sql")) can return over glob's orders
\* (@@ <<>> leaves the function as it is and has it tabulated once).
Directories ==
  { S \in SUBSET Names :
      \/ Cardinality(S) <= MaxFiles
      \/ S \subseteq ConcNames /\ Cardinality(S) <= MaxConcFiles }

sorted_glob ==
  [ S \in Directories |-> { sorted(e) : e \in Enumerations(S) } ] @@ <<>>

\* migration_file.stem.split('_')[0]
RECURSIVE SplitFirst(_)
SplitFirst(stem) ==
  IF stem = <<>> \/ Head(stem) = "_" THEN <<>>
  ELSE <<Head(stem)>> \o SplitFirst(Tail(stem))

AllDigits(s) == Len(s) > 0 /\ \A i \in 1..Len(s) : IsDigit(s[i])

\* int(version_str) raises ValueError unless: optional sign, then digits.
ParsesAsInt(s) ==
  \/ AllDigits(s)
  \/ Len(s) > 1 /\ s[1] = "-" /\ AllDigits(Tail(s))

RECURSIVE DigitsValue(_)
DigitsValue(s) ==
  IF s = <<>> THEN 0
  ELSE 10 * DigitsValue(SubSeq(s, 1, Len(s) - 1)) + (Code(s[Len(s)]) - Code("0"))

IntValue(s) == IF s[1] = "-" THEN 0 - DigitsValue(Tail(s)) ELSE DigitsValue(s)

\* The try block of the loop for each stem, tabulated once: whether
\* int(version_str) succeeds, and the version it gives.
ParsedNames ==
  [ f \in Names |->
      IF ParsesAsInt(SplitFirst(f))
      THEN [valid |-> TRUE, version |-> IntValue(SplitFirst(f))]
      ELSE [valid |-> FALSE, version |-> 0] ] @@ <<>>

ValidName(f) == ParsedNames[f].valid
Version(f) == ParsedNames[f].version

\* ------------------------------------------------------------- the store
EmptyDb ==
  [ file |-> FALSE,         \* the database file exists
    tableExists |-> FALSE,  \* schema_version has been created
    ledger |-> {},          \* committed rows of schema_version
    data |-> {},            \* committed effects of migration statements
    inTxn |-> FALSE,        \* the connection has an open transaction
    pledger |-> {},         \* rows written in the open transaction
    pdata |-> {} ]          \* effects written in the open transaction

Versions(rows) == { r.version : r \in rows }

\* What a statement on the connection sees.
VisibleLedger(d) == d.ledger \cup d.pledger
VisibleData(d) == d.data \cup d.pdata

Max(S) == CHOOSE m \in S : \A x \in S : x <= m

\* Variant: SELECT COUNT(version).
MaxVersionCount(d) == Cardinality(VisibleLedger(d))

\* SELECT MAX(version) FROM schema_version; None becomes 0.
MaxVersion(d) ==
  IF VisibleLedger(d) = {} THEN 0 ELSE Max(Versions(VisibleLedger(d)))

\* CREATE TABLE IF NOT EXISTS schema_version (...)
EnsureTable(d) == [d EXCEPT !.tableExists = TRUE]

\* Variant that never reads the table.
get_current_version_unread(d) == 0

get_current_version(d) == MaxVersion(EnsureTable(d))

\* db_path.touch(); sqlite3.connect(str(db_path))
Connect(d) == [d EXCEPT !.file = TRUE]

\* Variant that opens the store before it looks at the directory.
OpenStoreBeforeDirCheck(d, exists) == EnsureTable(Connect(d))

\* main up to its first read: the store is opened, and the ledger table
\* created, only past the sys.exit(1) of the directory check.
OpenStore(d, exists) == IF exists THEN EnsureTable(Connect(d)) ELSE d

\* conn.execute("BEGIN TRANSACTION")
Begin(d) == [d EXCEPT !.inTxn = TRUE]

\* Variant that keeps only the newest row in schema_version.
CommitSingleRow(d) ==
  [d EXCEPT !.ledger = IF d.pledger = {} THEN d.ledger ELSE d.pledger,
            !.data = d.data \cup d.pdata,
            !.inTxn = FALSE, !.pledger = {}, !.pdata = {}]

\* conn.commit()
Commit(d) ==
  [d EXCEPT !.ledger = d.ledger \cup d.pledger,
            !.data = d.data \cup d.pdata,
            !.inTxn = FALSE, !.pledger = {}, !.pdata = {}]

\* Variant of the error handlers without their conn.rollback().
RollbackLeavesOpen(d) == d

\* conn.rollback()
Rollback(d) == [d EXCEPT !.inTxn = FALSE, !.pledger = {}, !.pdata = {}]

\* One statement's write: into the open transaction, or committed at once
\* when the connection is in autocommit mode.
Write(d, eff) ==
  IF d.inTxn THEN [d EXCEPT !.pdata = @ \cup {eff}]
  ELSE [d EXCEPT !.data = @ \cup {eff}]

\* The statements of a script, one after the other, up to the first error.
RECURSIVE RunStatements(_, _, _, _)
RunStatements(d, f, stmts, i) ==
  IF i > Len(stmts) THEN [db |-> d, err |-> FALSE]
  ELSE IF stmts[i] = "bad" THEN [db |-> d, err |-> TRUE]
  ELSE RunStatements(Write(d, <<f, i>>), f, stmts, i + 1)

\* cursor.executescript(sql): sqlite3 commits any pending transaction first,
\* then runs the script.
executescript(d, f, stmts) ==
  RunStatements(IF d.inTxn THEN Commit(d) ELSE d, f, stmts, 1)

Row(f, version) ==
  [version |-> version, description |-> f, migration_type |-> "schema"]

\* Variant for a schema_version table declared without its primary key.
InsertVersionNoKey(d, f, version) ==
  LET t == IF d.inTxn THEN d ELSE Begin(d) IN
  [db |-> [t EXCEPT !.pledger = @ \cup {Row(f, version)}], err |-> FALSE]

\* cursor.execute("INSERT INTO schema_version ..."): a DML statement opens a
\* transaction when none is open; version is the PRIMARY KEY.
InsertVersion(d, f, version) ==
  LET t == IF d.inTxn THEN d ELSE Begin(d) IN
  IF version \in Versions(VisibleLedger(t))
  THEN [db |-> t, err |-> TRUE]
  ELSE [db |-> [t EXCEPT !.pledger = @ \cup {Row(f, version)}], err |-> FALSE]

\* Variant with BEGIN TRANSACTION ahead of the open() of the file.
apply_migration_begin_first(d, present, f, stmts, version) ==
  IF ~present
  THEN [db |-> Begin(d), ok |-> FALSE, category |-> "file not found"]
  ELSE
    LET s == executescript(Begin(d), f, stmts) IN
    IF s.err
    THEN [db |-> Rollback(s.db), ok |-> FALSE, category |-> "database error"]
    ELSE
      LET r == InsertVersion(s.db, f, version) IN
      IF r.err
      THEN [db |-> Rollback(r.db), ok |-> FALSE, category |-> "database error"]
      ELSE [db |-> Commit(r.db), ok |-> TRUE, category |-> "none"]

\* apply_migration(conn, migration_file, version)
apply_migration(d, present, f, stmts, version) ==
  IF ~present
  THEN [db |-> d, ok |-> FALSE, category |-> "file not found"]
  ELSE
    LET s == executescript(Begin(d), f, stmts) IN
    IF s.err
    THEN [db |-> Rollback(s.db), ok |-> FALSE, category |-> "database error"]
    ELSE
      LET r == InsertVersion(s.db, f, version) IN
      IF r.err
      THEN [db |-> Rollback(r.db), ok |-> FALSE, category |-> "database error"]
      ELSE [db |-> Commit(r.db), ok |-> TRUE, category |-> "none"]

\* ------------------------------------------------------------------ main
\* Variants of the filter with a wrong comparison.
IsCandidateInclusive(version, cv) == version >= cv
IsCandidateOffByOne(version, cv) == version > cv + 1
IsCandidateAlways(version, cv) == TRUE

\* if version > current_version
IsCandidate(version, cv) == version > cv

\* Variant of the loop that carries on after a failed migration.
AfterApplyContinue(success) == "Applying"

\* if not success: ... sys.exit(1)
AfterApply(success) == IF success THEN "Applying" ELSE "Failed"

\* Variant that exits 0 whatever happened.
ExitCodeAlwaysZero(ph) == 0

\* The sys.exit(1) of the two failure paths, the sys.exit(0) of the others.
ExitCode(ph) == IF ph = "Failed" THEN 1 ELSE 0

\* An instance that has not been started.
IdleInst ==
  [ pc |-> "idle",       \* where the instance is in main / apply_migration
    cur |-> 0,           \* its current_version
    mfiles |-> <<>>,     \* its migration_files
    idx |-> 1,           \* its loop position
    stmt |-> 1,          \* next statement of the script being executed
    applied |-> 0,       \* its applied_count
    exit |-> -1,         \* its exit code, -1 while running
    err |-> "none",      \* why its apply_migration call failed
    inTxn |-> FALSE,     \* its connection has an open transaction
    lock |-> FALSE,      \* its connection holds the database write lock
    pledger |-> {},      \* rows written in its open transaction
    pdata |-> {},        \* effects written in its open transaction
    tried |-> {},        \* history: files it called apply_migration for
    ran |-> {},          \* history: statements it executed in the store
    rec |-> {} ]         \* history: versions whose row it committed

\* History before the first run.
NoStart == [ ledger |-> {}, data |-> {}, prev |-> "Idle", prevFinal |-> -1 ]

TypeOK ==
  /\ dirExists \in BOOLEAN
  /\ files \subseteq Names
  /\ body \in [files -> Bodies]
  /\ phase \in {"Idle", "Applying", "Done", "Failed"}
  /\ run \in 0..MaxRuns
  /\ exit_code \in {-1, 0, 1}

Init ==
  /\ dirExists \in BOOLEAN
  /\ files \in { S \in SUBSET Names : Cardinality(S) <= MaxFiles }
  /\ dirExists = FALSE => files = {}
  /\ body \in [files -> Bodies]
  /\ db = EmptyDb
  /\ phase = "Idle"
  /\ run = 0
  /\ current_version = 0
  /\ migration_files = <<>>
  /\ idx = 1
  /\ applied_count = 0
  /\ final_version = -1
  /\ exit_code = -1
  /\ calls = <<>>
  /\ warnings = <<>>
  /\ start = NoStart
  /\ inst = [p \in Instances |-> IdleInst]

Invocable == phase \in {"Idle", "Done", "Failed"} /\ run < MaxRuns

\* History: the store a run finds when main() is entered, and how the
\* previous run ended.
StartOfRun ==
  [ ledger |-> db.ledger, data |-> db.data,
    prev |-> phase, prevFinal |-> final_version ]

\* main() when the migrations directory does not exist.
MissingDir ==
  /\ Invocable
  /\ ~dirExists
  /\ run' = run + 1
  /\ db' = OpenStore(db, dirExists)
  /\ phase' = "Failed"
  /\ exit_code' = ExitCode("Failed")
  /\ final_version' = -1
  /\ applied_count' = 0
  /\ migration_files' = <<>>
  /\ idx' = 1
  /\ start' = StartOfRun
  /\ UNCHANGED << dirExists, files, body, current_version, calls, warnings, inst >>

\* main() up to the for loop: connect, read the version, list and sort.
Start ==
  /\ Invocable
  /\ dirExists
  /\ run' = run + 1
  /\ db' = OpenStore(db, dirExists)
  /\ current_version' = get_current_version(Connect(db))
  /\ migration_files' \in sorted_glob[files]
  /\ idx' = 1
  /\ applied_count' = 0
  /\ final_version' = -1
  /\ start' = StartOfRun
  /\ IF files = {}
     THEN phase' = "Done" /\ exit_code' = ExitCode("Done")
     ELSE phase' = "Applying" /\ exit_code' = -1
  /\ UNCHANGED << dirExists, files, body, calls, warnings, inst >>

InLoop == phase = "Applying" /\ idx <= Len(migration_files)

\* Loop iteration: the name does not parse; warn and continue.
SkipInvalid ==
  /\ InLoop
  /\ ~ValidName(migration_files[idx])
  /\ warnings' = Append(warnings, [run |-> run, file |-> migration_files[idx]])
  /\ idx' = idx + 1
  /\ UNCHANGED << dirExists, files, body, db, phase, run, current_version,
                  migration_files, applied_count, final_version, exit_code,
                  calls, start, inst >>

\* Loop iteration: the version is not above current_version; nothing happens.
SkipOld ==
  /\ InLoop
  /\ ValidName(migration_files[idx])
  /\ ~IsCandidate(Version(migration_files[idx]), current_version)
  /\ idx' = idx + 1
  /\ UNCHANGED << dirExists, files, body, db, phase, run, current_version,
                  migration_files, applied_count, final_version, exit_code,
                  calls, warnings, start, inst >>

\* Loop iteration: apply_migration, then count it or stop the process.
Apply ==
  /\ InLoop
  /\ ValidName(migration_files[idx])
  /\ IsCandidate(Version(migration_files[idx]), current_version)
  /\ LET f == migration_files[idx]
         v == Version(f)
         present == f \in files
         stmts == IF present THEN body[f] ELSE <<>>
     IN \E res \in {apply_migration(db, present, f, stmts, v)} :
        /\ db' = res.db
        /\ calls' = Append(calls,
                      [run |-> run, file |-> f, version |-> v, ok |-> res.ok,
                       stmts |-> stmts, pos |-> idx,
                       preLedger |-> db.ledger, preData |-> db.data])
        /\ phase' = AfterApply(res.ok)
        /\ IF phase' = "Failed"
           THEN exit_code' = ExitCode("Failed") /\ UNCHANGED << applied_count, idx >>
           ELSE /\ applied_count' = applied_count + (IF res.ok THEN 1 ELSE 0)
                /\ idx' = idx + 1
                /\ UNCHANGED exit_code
  /\ UNCHANGED << dirExists, files, body, run, current_version,
                  migration_files, final_version, warnings, start, inst >>

\* Between discovery and execution another process removes the file the
\* loop is about to hand to apply_migration.
Vanish ==
  /\ InLoop
  /\ ValidName(migration_files[idx])
  /\ IsCandidate(Version(migration_files[idx]), current_version)
  /\ migration_files[idx] \in files
  /\ files' = files \ {migration_files[idx]}
  /\ body' = [f \in files' |-> body[f]]
  /\ UNCHANGED << dirExists, db, phase, run, current_version,
                  migration_files, idx, applied_count, final_version,
                  exit_code, calls, warnings, start, inst >>

\* After the loop: re-read the version, report, exit 0.
Finish ==
  /\ phase = "Applying"
  /\ idx > Len(migration_files)
  /\ final_version' = get_current_version(db)
  /\ phase' = "Done"
  /\ exit_code' = ExitCode("Done")
  /\ UNCHANGED << dirExists, files, body, db, run, current_version,
                  migration_files, idx, applied_count, calls, warnings, start, inst >>

\* Between runs the operator corrects the body of a migration file; each
\* run reads the file anew.
FixBody ==
  /\ Invocable
  /\ run > 0
  /\ \E f \in files :
       /\ body[f] # GoodBody
       /\ body' = [body EXCEPT ![f] = GoodBody]
  /\ UNCHANGED << dirExists, files, db, phase, run, current_version,
                  migration_files, idx, applied_count, final_version,
                  exit_code, calls, warnings, start, inst >>

Next ==
  \/ MissingDir
  \/ Start
  \/ SkipInvalid
  \/ SkipOld
  \/ Apply
  \/ Finish
  \/ FixBody
  \/ Vanish

Spec == Init /\ [][Next]_vars

\* ---------------------------------------------- concurrent instances
\* Several processes run main() against one database file and one
\* directory, each with its own connection; apply_migration is taken one
\* database operation at a time, and a process may be killed inside it.

\* The database as the connection of instance p sees and changes it.
ConnOf(p) ==
  [db EXCEPT !.inTxn = inst[p].inTxn,
             !.pledger = inst[p].pledger,
             !.pdata = inst[p].pdata]

\* What of a connection's view is in the database file.
Shared(d) == [d EXCEPT !.inTxn = FALSE, !.pledger = {}, !.pdata = {}]

\* The locals r of an instance with the connection state of d.
WithConn(r, d) ==
  [r EXCEPT !.inTxn = d.inTxn, !.pledger = d.pledger, !.pdata = d.pdata]

\* Another connection holds the write lock: a write on this one waits, and
\* fails with "database is locked" when its timeout ends first.
LockedByOther(p) == \E q \in Instances \ {p} : inst[q].lock

CurFile(p) == inst[p].mfiles[inst[p].idx]

InApply(p) == inst[p].pc \in {"begin", "script", "insert", "commit", "rollback"}

InitConc ==
  /\ dirExists = TRUE
  /\ files \in { S \in SUBSET ConcNames : Cardinality(S) <= MaxConcFiles }
  /\ body \in [files -> Bodies]
  /\ db = EmptyDb
  /\ phase = "Idle"
  /\ run = 0
  /\ current_version = 0
  /\ migration_files = <<>>
  /\ idx = 1
  /\ applied_count = 0
  /\ final_version = -1
  /\ exit_code = -1
  /\ calls = <<>>
  /\ warnings = <<>>
  /\ start = NoStart
  /\ inst = [p \in Instances |-> IdleInst]

\* main() up to the for loop.
CStart(p) ==
  /\ inst[p].pc = "idle"
  /\ db' = Shared(OpenStore(db, dirExists))
  /\ \E mf \in sorted_glob[files] :
       inst' = [inst EXCEPT ![p] =
                  [@ EXCEPT !.cur = get_current_version(Connect(db)),
                            !.mfiles = mf,
                            !.pc = IF files = {} THEN "done" ELSE "loop",
                            !.exit = IF files = {} THEN ExitCode("Done") ELSE -1]]
  /\ UNCHANGED << dirExists, files, body, seqVars >>

\* Loop iteration that applies nothing: invalid name or old version.
CSkip(p) ==
  /\ inst[p].pc = "loop"
  /\ inst[p].idx <= Len(inst[p].mfiles)
  /\ ~(/\ ValidName(CurFile(p))
       /\ IsCandidate(Version(CurFile(p)), inst[p].cur))
  /\ inst' = [inst EXCEPT ![p].idx = @ + 1]
  /\ UNCHANGED << dirExists, files, body, db, seqVars >>

\* Loop iteration that invokes apply_migration.
CCall(p) ==
  /\ inst[p].pc = "loop"
  /\ inst[p].idx <= Len(inst[p].mfiles)
  /\ ValidName(CurFile(p))
  /\ IsCandidate(Version(CurFile(p)), inst[p].cur)
  /\ inst' = [inst EXCEPT ![p].pc = "begin", ![p].tried = @ \cup {CurFile(p)}]
  /\ UNCHANGED << dirExists, files, body, db, seqVars >>

\* apply_migration: read the file, BEGIN TRANSACTION.
CBegin(p) ==
  /\ inst[p].pc = "begin"
  /\ inst' = [inst EXCEPT ![p] =
                WithConn([@ EXCEPT !.pc = "script", !.stmt = 1],
                         Begin(ConnOf(p)))]
  /\ UNCHANGED << dirExists, files, body, db, seqVars >>

\* apply_migration: executescript runs its next statement (before the
\* first one it commits the pending transaction).
CStatement(p) ==
  /\ inst[p].pc = "script"
  /\ LET f == CurFile(p)
         i == inst[p].stmt
         d == IF ConnOf(p).inTxn THEN Commit(ConnOf(p)) ELSE ConnOf(p)
     IN IF LockedByOther(p)
        THEN /\ db' = Shared(d)
             /\ inst' = [inst EXCEPT ![p] =
                           WithConn([@ EXCEPT !.pc = "rollback", !.err = "busy"], d)]
        ELSE \E r \in {RunStatements(d, f, SubSeq(body[f], 1, i), i)} :
               /\ db' = Shared(r.db)
               /\ inst' = [inst EXCEPT ![p] =
                    WithConn(
                      IF r.err
                      THEN [@ EXCEPT !.pc = "rollback", !.err = "statement"]
                      ELSE [@ EXCEPT !.stmt = i + 1,
                                     !.ran = @ \cup {<<f, i>>},
                                     !.pc = IF i = Len(body[f])
                                            THEN "insert" ELSE "script"],
                      r.db)]
  /\ UNCHANGED << dirExists, files, body, seqVars >>

\* apply_migration: INSERT INTO schema_version.
CInsert(p) ==
  /\ inst[p].pc = "insert"
  /\ IF LockedByOther(p)
     THEN inst' = [inst EXCEPT ![p] =
                     WithConn([@ EXCEPT !.pc = "rollback", !.err = "busy"],
                              Begin(ConnOf(p)))]
     ELSE \E r \in {InsertVersion(ConnOf(p), CurFile(p), Version(CurFile(p)))} :
            inst' = [inst EXCEPT ![p] =
                       WithConn(
                         IF r.err
                         THEN [@ EXCEPT !.pc = "rollback", !.err = "constraint",
                                        !.lock = TRUE]
                         ELSE [@ EXCEPT !.pc = "commit", !.lock = TRUE],
                         r.db)]
  /\ UNCHANGED << dirExists, files, body, db, seqVars >>

\* apply_migration: conn.commit(), return True; main counts and goes on.
CCommit(p) ==
  /\ inst[p].pc = "commit"
  /\ \E d \in {Commit(ConnOf(p))} :
       /\ db' = Shared(d)
       /\ inst' = [inst EXCEPT ![p] =
                     WithConn([@ EXCEPT !.pc = "loop", !.idx = @ + 1,
                                        !.applied = @ + 1, !.lock = FALSE,
                                        !.rec = @ \cup {Version(CurFile(p))}],
                              d)]
  /\ UNCHANGED << dirExists, files, body, seqVars >>

\* apply_migration: conn.rollback(), return False; main exits 1.
CRollback(p) ==
  /\ inst[p].pc = "rollback"
  /\ inst' = [inst EXCEPT ![p] =
                WithConn([@ EXCEPT !.pc = "failed", !.lock = FALSE,
                                   !.exit = ExitCode("Failed")],
                         Rollback(ConnOf(p)))]
  /\ UNCHANGED << dirExists, files, body, db, seqVars >>

\* After the loop: exit 0.
CFinish(p) ==
  /\ inst[p].pc = "loop"
  /\ inst[p].idx > Len(inst[p].mfiles)
  /\ inst' = [inst EXCEPT ![p].pc = "done", ![p].exit = ExitCode("Done")]
  /\ UNCHANGED << dirExists, files, body, db, seqVars >>

\* The process is killed inside apply_migration: its connection goes away
\* and sqlite discards what that connection had not committed.
Kill(p) ==
  /\ InApply(p)
  /\ inst' = [inst EXCEPT ![p] =
                WithConn([@ EXCEPT !.pc = "killed", !.lock = FALSE],
                         Rollback(ConnOf(p)))]
  /\ UNCHANGED << dirExists, files, body, db, seqVars >>

NextConc ==
  \E p \in Instances :
    \/ CStart(p)
    \/ CSkip(p)
    \/ CCall(p)
    \/ CBegin(p)
    \/ CStatement(p)
    \/ CInsert(p)
    \/ CCommit(p)
    \/ CRollback(p)
    \/ CFinish(p)
    \/ Kill(p)

SpecConc == InitConc /\ [][NextConc]_vars

\* ------------------------------------------------------- claim vocabulary
CallsOf(r) == { i \in 1..Len(calls) : calls[i].run = r }

\* The effects the statements of a call's body would have.
EffectsOf(c) == { <<c.file, i>> : i \in 1..Len(c.stmts) }

\* Positions of migration_files that parse and pass the version filter.
CandidatePositions ==
  { i \in 1..Len(migration_files) :
      /\ ValidName(migration_files[i])
      /\ Version(migration_files[i]) > current_version }

ValidPositions ==
  { i \in 1..Len(migration_files) : ValidName(migration_files[i]) }

LastCall == calls[Len(calls)]

\* The current run stopped because apply_migration returned False.
FailedAtCall ==
  /\ phase = "Failed"
  /\ calls # <<>>
  /\ LastCall.run = run
  /\ ~LastCall.ok

\* C1: within one run, of two units applied successfully the one with the
\* smaller version is applied first, for padded and unpadded ordinals alike.
C1_AppliedInAscendingVersionOrder ==
  \A i, j \in 1..Len(calls) :
    (i < j /\ calls[i].run = calls[j].run /\ calls[i].ok /\ calls[j].ok)
      => calls[i].version < calls[j].version

\* C2: after apply_migration returns, the effects of the unit's body and the
\* row it writes are both present or both absent; when the body ran through
\* and the INSERT failed, no effect of the body is visible.
C2_BodyAndRowAtomic ==
  calls # <<>> =>
    LET c == LastCall
        row == Row(c.file, c.version)
    IN /\ \/ EffectsOf(c) \subseteq db.data /\ row \in db.ledger
          \/ EffectsOf(c) \cap db.data = {} /\ row \notin db.ledger
       /\ (~c.ok /\ \A i \in 1..Len(c.stmts) : c.stmts[i] = "ok")
            => EffectsOf(c) \cap db.data = {}

\* C3: when a later statement of a several-statement body fails, data and
\* ledger are exactly what they were before apply_migration was called.
C3_FailedBodyLeavesStoreUntouched ==
  (/\ calls # <<>>
   /\ ~LastCall.ok
   /\ \E i \in 2..Len(LastCall.stmts) :
        /\ LastCall.stmts[i] = "bad"
        /\ \A j \in 1..(i - 1) : LastCall.stmts[j] = "ok")
    => /\ db.data = LastCall.preData
       /\ db.ledger = LastCall.preLedger

\* C4: once apply_migration has returned failure in a run, that run makes no
\* further apply_migration call and is in the Failed terminal state.
C4_FailFast ==
  \A i \in 1..Len(calls) :
    ~calls[i].ok =>
      /\ \A j \in 1..Len(calls) : j > i => calls[j].run # calls[i].run
      /\ calls[i].run = run => (phase = "Failed" /\ exit_code = 1)

\* A run has failed at a candidate that is followed by a well-formed
\* candidate whose body is valid.
C4_Witness ==
  /\ FailedAtCall
  /\ \E i \in CandidatePositions :
       /\ i > LastCall.pos
       /\ body[migration_files[i]] = GoodBody
       /\ Version(migration_files[i]) \notin Versions(db.ledger)

\* C5: after a run that failed at candidate k the ledger holds the versions
\* it held before the run plus those of the candidates before k; the version
\* of k and of every later candidate has no row and no visible effect.
C5_FailedRunLeavesOnlyEarlierUnits ==
  FailedAtCall =>
    /\ Versions(db.ledger) =
         Versions(start.ledger)
           \cup { calls[i].version : i \in { j \in CallsOf(run) : calls[j].ok } }
    /\ \A i \in CandidatePositions :
         i >= LastCall.pos =>
           /\ Version(migration_files[i]) \notin Versions(db.ledger)
           /\ \A e \in db.data : e[1] # migration_files[i]

\* C6: the body of a migration is never executed while its version already
\* has a ledger row, whatever the directory holds.
C6_NeverExecutesRecordedVersion ==
  \A i \in 1..Len(calls) :
    calls[i].stmts # <<>> => calls[i].version \notin Versions(calls[i].preLedger)

\* C7: a run started right after a run that ended Done calls apply_migration
\* for nothing, leaves ledger and data as they were, does not fail, and
\* reports the version the previous run reported.
C7_RerunIdempotent ==
  (run >= 2 /\ start.prev = "Done") =>
    /\ CallsOf(run) = {}
    /\ applied_count = 0
    /\ phase # "Failed"
    /\ db.ledger = start.ledger
    /\ db.data = start.data
    /\ start.prevFinal # -1 => current_version = start.prevFinal
    /\ (start.prevFinal # -1 /\ final_version # -1)
         => final_version = start.prevFinal

\* A rerun after a Done run that applied something has itself ended Done.
C7_Witness ==
  /\ run >= 2
  /\ start.prev = "Done"
  /\ phase = "Done"
  /\ final_version > 0
  /\ \E i \in 1..Len(calls) : calls[i].run = run - 1 /\ calls[i].ok

\* C8: a run whose candidates all apply ends Done, not Failed; then every
\* discovered unit above the initial current version has a row and the
\* final version is the greatest discovered version, or the initial one
\* when there was no candidate.
C8_SuccessfulRunReachesLatest ==
  /\ (phase = "Failed" /\ dirExists) => FailedAtCall
  /\ (phase = "Applying" /\ idx > Len(migration_files)) => ENABLED Finish
  /\ (phase = "Done" /\ run >= 1) =>
       LET latest ==
             IF CandidatePositions = {} THEN current_version
             ELSE Max({ Version(migration_files[i]) : i \in ValidPositions })
       IN /\ \A i \in CandidatePositions :
               Version(migration_files[i]) \in Versions(db.ledger)
          /\ MaxVersion(db) = latest
          /\ final_version # -1 => final_version = latest

\* A run has ended Done after applying at least two candidates.
C8_Witness ==
  /\ phase = "Done"
  /\ applied_count >= 2
  /\ final_version > current_version

\* C9: a run that follows a run failed at version v (its body since
\* corrected) attempts nothing the failed run committed and attempts v first.
C9_ResumesAtFailedVersion ==
  (/\ run >= 2
   /\ start.prev = "Failed"
   /\ \E i \in CallsOf(run - 1) :
        /\ ~calls[i].ok
        /\ calls[i].stmts # GoodBody
        /\ calls[i].file \in files
        /\ body[calls[i].file] = GoodBody)
    => LET failed == CHOOSE i \in CallsOf(run - 1) : ~calls[i].ok
           committed == { calls[i].version :
                            i \in { j \in CallsOf(run - 1) : calls[j].ok } }
       IN /\ \A i \in CallsOf(run) : calls[i].version \notin committed
          /\ \A i \in CallsOf(run) :
               (\A j \in CallsOf(run) : i <= j)
                 => calls[i].version = calls[failed].version
          /\ phase \in {"Done", "Failed"} => CallsOf(run) # {}

\* C10: the units discovery hands to the loop are in ascending numeric
\* version order for every set of names with distinct versions.
C10_DiscoverySortedByVersion ==
  (\A i, j \in ValidPositions :
     i # j => Version(migration_files[i]) # Version(migration_files[j]))
    => \A i, j \in ValidPositions :
         i < j => Version(migration_files[i]) < Version(migration_files[j])

\* v is the greatest version of rows, or 0 when there is no row.
IsMaxOrZero(v, rows) ==
  IF rows = {} THEN v = 0
  ELSE /\ \E r \in rows : r.version = v
       /\ \A r \in rows : r.version <= v

\* The leading segment of the name is a non-negative integer.
NonNegativeOrdinal(f) == AllDigits(SplitFirst(f))

\* The current run is past its directory check and its first read.
Started == run >= 1 /\ dirExists

\* C11: get_current_version returns the greatest version in schema_version
\* and 0 when there is no row, also when the table did not exist before.
C11_CurrentVersionIsLedgerMax ==
  Started =>
    /\ IsMaxOrZero(current_version, start.ledger)
    /\ run = 1 => (current_version = 0 /\ db.tableExists)
    /\ final_version # -1 => IsMaxOrZero(final_version, db.ledger)

\* The version re-read at the end is the maximum although the row written
\* last has a smaller version.
C11_Witness ==
  /\ phase = "Done"
  /\ final_version # -1
  /\ Cardinality(db.ledger) >= 2
  /\ calls # <<>>
  /\ LastCall.ok
  /\ LastCall.version < final_version

\* C13: an entry whose leading segment is not a non-negative integer is
\* skipped with a warning and never applied, and does not fail the run; a
\* negative ordinal gets the warning too.
C13_MalformedSkippedWithWarning ==
  \A i \in 1..Len(migration_files) :
    (i < idx /\ ~NonNegativeOrdinal(migration_files[i])) =>
      /\ \E w \in 1..Len(warnings) :
           warnings[w].run = run /\ warnings[w].file = migration_files[i]
      /\ \A c \in 1..Len(calls) : calls[c].file # migration_files[i]
      /\ phase = "Failed" => (FailedAtCall /\ LastCall.pos # i)

\* C14: with the migrations directory missing the run exits 1 and the store
\* is untouched: no database file, no ledger table, no version read.
C14_MissingDirLeavesStoreUntouched ==
  (run >= 1 /\ ~dirExists) =>
    /\ phase = "Failed"
    /\ exit_code = 1
    /\ ~db.file
    /\ ~db.tableExists
    /\ db = EmptyDb
    /\ current_version = 0
    /\ final_version = -1
    /\ calls = <<>>

C14_Witness == run >= 1 /\ ~dirExists /\ phase = "Failed"

\* C15: when no discovered unit is above the current version the run makes
\* no apply_migration call, changes neither ledger nor data, and ends Done
\* with applied_count 0 and exit code 0.
C15_NothingToApply ==
  (Started /\ CandidatePositions = {}) =>
    /\ CallsOf(run) = {}
    /\ applied_count = 0
    /\ db.ledger = start.ledger
    /\ db.data = start.data
    /\ phase \in {"Applying", "Done"}
    /\ phase = "Done" => exit_code = 0
    /\ (phase = "Applying" /\ idx > Len(migration_files)) => ENABLED Finish

\* A run over well-formed units, none above the current version, is Done.
C15_Witness ==
  /\ Started
  /\ phase = "Done"
  /\ ValidPositions # {}
  /\ CandidatePositions = {}
  /\ exit_code = 0

C17_BothTerminalsReread ==
  (run >= 1 /\ phase \in {"Done", "Failed"} /\ CallsOf(run) # {}) =>
    /\ final_version # -1
    /\ IsMaxOrZero(final_version, db.ledger)

\* C17 as the code has it: Done reached through the loop re-reads the ledger
\* and reports its maximum; Failed, and Done for a directory without files,
\* exit without reading the ledger again.
C17_OnlyLoopEndRereads ==
  /\ (Started /\ phase = "Done" /\ migration_files # <<>>) =>
       (final_version # -1 /\ IsMaxOrZero(final_version, db.ledger))
  /\ (run >= 1 /\ phase = "Done" /\ migration_files = <<>>) => final_version = -1
  /\ phase = "Failed" => final_version = -1

\* A run has failed after committing a unit; no version was re-read.
C17_Witness ==
  /\ FailedAtCall
  /\ db.ledger # start.ledger
  /\ final_version = -1

\* C20: a committed row of schema_version is never removed or altered, and
\* the greatest version never goes down.
C20_LedgerAppendOnly ==
  [][/\ db.ledger \subseteq db'.ledger
     /\ \A v \in Versions(db.ledger) : \E w \in Versions(db'.ledger) : v <= w]_vars

\* A second run has added a row to a ledger that already had one.
C20_Witness ==
  /\ run >= 2
  /\ start.ledger # {}
  /\ start.ledger \subseteq db.ledger
  /\ db.ledger # start.ledger

\* C12: in every state of the store, whether the instances ran one after
\* the other or interleaved, no two ledger rows have the same version.
C12_VersionsUnique ==
  \A r1, r2 \in db.ledger : r1.version = r2.version => r1 = r2

\* An instance's INSERT was rejected by the primary key for a version that
\* another unit or instance had recorded.
C12_Witness ==
  \E p \in Instances :
    /\ inst[p].pc = "failed"
    /\ inst[p].err = "constraint"
    /\ \E r \in db.ledger : r.version = Version(CurFile(p))

\* C18: once the process has been killed inside apply_migration (no other
\* instance has run), every unit has its ledger row exactly when all effects
\* of its body are present, and no effect of the interrupted unit is visible.
C18_KillLeavesLastCommittedVersion ==
  \A p \in Instances :
    (/\ inst[p].pc = "killed"
     /\ \A q \in Instances \ {p} : inst[q].pc = "idle")
      => /\ \A f \in files :
              Row(f, Version(f)) \in db.ledger
                <=> { <<f, i>> : i \in 1..Len(body[f]) } \subseteq db.data
         /\ \A e \in db.data : e[1] # CurFile(p)

\* C19: an instance standing at a unit above the version it read invokes
\* apply_migration whatever the other instance is doing; nothing excludes
\* two instances from applying the same candidate.
C19_NoMutualExclusion ==
  \A p \in Instances :
    (/\ inst[p].pc = "loop"
     /\ inst[p].idx <= Len(inst[p].mfiles)
     /\ ValidName(CurFile(p))
     /\ Version(CurFile(p)) > inst[p].cur)
      => ENABLED CCall(p)

\* Two instances that read the same current version are both inside
\* apply_migration for the same unit.
C19_Witness ==
  \E p, q \in Instances :
    /\ p # q
    /\ InApply(p)
    /\ InApply(q)
    /\ inst[p].cur = inst[q].cur
    /\ CurFile(p) = CurFile(q)

\* C21: apply_migration called for a version that has a ledger row returns
\* failure (the INSERT is rejected), the run halts with exit code 1, and the
\* row that was there is still there, alone for its version.
C21_DuplicateVersionRejected ==
  /\ \A v \in Versions(db.ledger) : \A f \in files :
       LET r == InsertVersion(db, f, v)
       IN r.err /\ r.db.ledger = db.ledger /\ r.db.pledger = {}
  /\ \A i \in 1..Len(calls) :
       calls[i].version \in Versions(calls[i].preLedger) =>
         /\ ~calls[i].ok
         /\ calls[i].run = run => (phase = "Failed" /\ exit_code = 1)
         /\ \A r \in calls[i].preLedger :
              r.version = calls[i].version => r \in db.ledger
         /\ \A r \in db.ledger :
              r.version = calls[i].version => r \in calls[i].preLedger

\* A run has stopped at a unit with a valid body whose version was recorded
\* by another unit.
C21_Witness ==
  /\ FailedAtCall
  /\ exit_code = 1
  /\ LastCall.stmts = GoodBody
  /\ \E r \in db.ledger :
       r.version = LastCall.version /\ r.description # LastCall.file

\* C22: whichever way apply_migration returns, the connection has no open
\* transaction and no uncommitted write.
C22_NoTransactionLeftOpen ==
  /\ ~db.inTxn
  /\ db.pledger = {}
  /\ db.pdata = {}
  /\ \A f \in files : \A present \in BOOLEAN :
       ~apply_migration(db, present, f, IF present THEN body[f] ELSE <<>>,
                        Version(f)).db.inTxn

\* apply_migration has returned failure after its INSERT was rejected, the
\* one path on which a transaction is open when the error is raised.
C22_Witness ==
  /\ calls # <<>>
  /\ ~LastCall.ok
  /\ LastCall.stmts = GoodBody
  /\ db.ledger = LastCall.preLedger
  /\ ~db.inTxn

\* C23: a run calls apply_migration at most once for a discovered file; a
\* call for a file that has vanished fails, opens no transaction and leaves
\* the store as it was, is followed by no other call of the run, and the run
\* exits 1.
C23_NoRetry ==
  /\ \A i, j \in 1..Len(calls) :
       (i # j /\ calls[i].run = calls[j].run) => calls[i].file # calls[j].file
  /\ \A f \in Names :
       apply_migration(db, FALSE, f, <<>>, Version(f)) =
         [db |-> db, ok |-> FALSE, category |-> "file not found"]
  /\ \A i \in 1..Len(calls) :
       calls[i].stmts = <<>> =>
         /\ ~calls[i].ok
         /\ \A j \in 1..Len(calls) : j > i => calls[j].run # calls[i].run
         /\ calls[i].run = run =>
              /\ phase = "Failed"
              /\ exit_code = 1
              /\ db.ledger = calls[i].preLedger
              /\ db.data = calls[i].preData
              /\ ~db.inTxn

\* A run that had applied a unit has stopped at a file that vanished after
\* discovery.
C23_Witness ==
  /\ FailedAtCall
  /\ LastCall.stmts = <<>>
  /\ LastCall.file \notin files
  /\ \E i \in CallsOf(run) : calls[i].ok
  /\ exit_code = 1

\* C24: when two discovered units parse to the same version, no run ends
\* Done with one of them recorded and the other passed over, and the body of
\* the second one in iteration order has no effect in the store.
C24_DuplicateVersionsFlagged ==
  \A i, j \in ValidPositions :
    (i < j /\ Version(migration_files[i]) = Version(migration_files[j])) =>
      /\ phase = "Done" =>
           (Row(migration_files[i], Version(migration_files[i])) \in db.ledger
              <=> Row(migration_files[j], Version(migration_files[j])) \in db.ledger)
      /\ \A e \in db.data : e[1] # migration_files[j]

\* The run before the current one began from the store and the directory
\* the current one began from: it changed nothing in the store, no file has
\* vanished, and the files it read have the body they had.
SameInputsAsPreviousRun ==
  /\ run >= 2
  /\ dirExists
  /\ \A i \in CallsOf(run - 1) :
       /\ calls[i].preLedger = start.ledger
       /\ calls[i].preData = start.data
       /\ calls[i].stmts # <<>>
       /\ calls[i].file \in files
       /\ body[calls[i].file] = calls[i].stmts
  /\ \A i \in CallsOf(run) : calls[i].stmts # <<>>

RECURSIVE Label(_)
Label(stem) ==
  IF stem = <<>> THEN <<>>
  ELSE IF Head(stem) = "_" THEN Tail(stem)
  ELSE Label(Tail(stem))

\* C26: the row written for an applied unit has the unit's version, kind
\* 'schema', and the unit's label (name minus version prefix) as description.
C26_RowDescribesUnit ==
  \A i \in 1..Len(calls) :
    calls[i].ok =>
      \E r \in db.ledger :
        /\ r.version = calls[i].version
        /\ r.version = Version(calls[i].file)
        /\ r.migration_type = "schema"
        /\ r.description = Label(calls[i].file)

\* apply_migration has been called for position i of the current run.
Attempted(i) == \E c \in CallsOf(run) : calls[c].pos = i

\* C27: the filter uses the version read when the run began: a position the
\* loop has reached is attempted exactly when its version is above that
\* value, the loop reaches a position only when every attempt before it
\* succeeded, and rows written during the run change neither.
C27_FilterUsesInitialVersion ==
  Started =>
    /\ IsMaxOrZero(current_version, start.ledger)
    /\ \A i \in 1..Len(migration_files) :
         Attempted(i) <=>
           /\ ValidName(migration_files[i])
           /\ Version(migration_files[i]) > current_version
           /\ (i < idx \/ (i = idx /\ phase = "Failed"))
    /\ \A c1, c2 \in CallsOf(run) : c1 < c2 => calls[c1].ok
    /\ phase = "Failed" =>
         \E c \in CallsOf(run) : calls[c].pos = idx /\ ~calls[c].ok

\* A unit was applied after a higher version had been recorded by the same
\* run.
C27_Witness ==
  \E c \in CallsOf(run) :
    /\ calls[c].ok
    /\ \E r \in calls[c].preLedger \ start.ledger :
         r.version > calls[c].version

\* C28: a unit whose version is not above the version read at the start is
\* passed over without a call and without a warning, also when its version
\* has no row; no row for it appears.
C28_OldVersionsNeverApplied ==
  Started =>
    \A i \in 1..Len(migration_files) :
      (/\ i < idx
       /\ ValidName(migration_files[i])
       /\ Version(migration_files[i]) <= current_version) =>
        /\ ~Attempted(i)
        /\ \A w \in 1..Len(warnings) :
             warnings[w].run = run => warnings[w].file # migration_files[i]
        /\ Version(migration_files[i]) \notin Versions(start.ledger)
             => Version(migration_files[i]) \notin Versions(db.ledger)

\* A run has ended Done, exit code 0, over a unit with a positive version
\* below the current one that has no row.
C28_Witness ==
  /\ Started
  /\ phase = "Done"
  /\ exit_code = 0
  /\ \E i \in ValidPositions :
       /\ Version(migration_files[i]) > 0
       /\ Version(migration_files[i]) <= current_version
       /\ Version(migration_files[i]) \notin Versions(db.ledger)

\* C30: applied_count is the number of rows the run has committed; at Done
\* the ledger has grown by applied_count rows, one for each discovered unit
\* above the initial current version.
C30_AppliedCountMatchesLedger ==
  Started =>
    /\ start.ledger \subseteq db.ledger
    /\ applied_count = Cardinality(db.ledger \ start.ledger)
    /\ applied_count = Cardinality({ c \in CallsOf(run) : calls[c].ok })
    /\ phase = "Done" =>
         /\ applied_count = Cardinality(CandidatePositions)
         /\ Cardinality(db.ledger) = Cardinality(start.ledger) + applied_count

\* A later run has ended Done after adding rows to a ledger that had some,
\* passing over a unit on the way.
C30_Witness ==
  /\ run >= 2
  /\ phase = "Done"
  /\ start.ledger # {}
  /\ applied_count >= 1
  /\ Cardinality(CandidatePositions) < Len(migration_files)

\* C29: of two instances that called apply_migration for the same unit at
\* most one commits its row, the other one's call returns failure and that
\* instance exits 1, and each statement of the body is executed in the store
\* by at most one of them.
C29_SameCandidateAppliedOnce ==
  \A p, q \in Instances : \A f \in inst[p].tried \cap inst[q].tried :
    p # q =>
      /\ ~(Version(f) \in inst[p].rec /\ Version(f) \in inst[q].rec)
      /\ (/\ Version(f) \in inst[p].rec
          /\ inst[q].pc # "killed"
          /\ ~InApply(q))
           => (inst[q].pc = "failed" /\ inst[q].exit = 1)
      /\ \A i \in 1..Len(body[f]) :
           ~(<<f, i>> \in inst[p].ran /\ <<f, i>> \in inst[q].ran)

====
